---- MODULE Spec2Model ----
(***************************************************************************)
(* LicensePlateEvaluator (src/eval.py): IoU kernel, the greedy matchers,   *)
(* the conditioned pair collector, the confusion accumulator and the       *)
(* cascade evaluator that drives them over a data loader.                  *)
(*                                                                         *)
(* IoU values are exact fractions <<num, den>> with den > 0; on the small  *)
(* integer coordinates used here Python's float division orders and        *)
(* equates them exactly as the fractions do.                               *)
(***************************************************************************)
EXTENDS Integers, Sequences, FiniteSets, TLC

VARIABLES
    iou_threshold,  \* self.iou_threshold, a fraction
    data_loader,    \* self.data_loader, flattened: the image filenames in order
    pos,            \* how many images of data_loader the running call has consumed
    pc,             \* where the program is
    run,            \* number of evaluate_predictions calls started on this instance
    counters,       \* the locals tp_plate .. fn_seg_only of evaluate_predictions
    y_true,         \* self.y_true
    y_pred,         \* self.y_pred
    cls_only,       \* (tp_cls_only, fp_cls_only, fn_cls_only) of the running call
    args,           \* arguments of a direct call of bbox_iou or of a matcher
    ret             \* what that call returned

vars == <<iou_threshold, data_loader, pos, pc, run, counters, y_true, y_pred,
          cls_only, args, ret>>

-----------------------------------------------------------------------------
(* Bounds *)

MaxCoord == 2
MaxGT == 2
MaxPred == 2
MaxImages == 2
MaxRuns == 2

-----------------------------------------------------------------------------
(* Fractions *)

Frac(n, d) == IF d < 0 THEN <<0 - n, 0 - d>> ELSE <<n, d>>
Zero == <<0, 1>>
Gt(a, b) == a[1] * b[2] > b[1] * a[2]
Ge(a, b) == a[1] * b[2] >= b[1] * a[2]
Max2(a, b) == IF a >= b THEN a ELSE b
Min2(a, b) == IF a <= b THEN a ELSE b

\* best_match_idx = None
None == -1

Thresholds == {<<0, 1>>, <<1, 2>>, <<1, 1>>}

-----------------------------------------------------------------------------
(* Geometry kernel *)

\* the same computation without the `if union != 0` guard
bbox_iou_unguarded(box1, box2) ==
    LET inter_x1 == Max2(box1[1], box2[1])
        inter_y1 == Max2(box1[2], box2[2])
        inter_x2 == Min2(box1[3], box2[3])
        inter_y2 == Min2(box1[4], box2[4])
        inter_area == Max2(inter_x2 - inter_x1, 0) * Max2(inter_y2 - inter_y1, 0)
        box1_area == (box1[3] - box1[1]) * (box1[4] - box1[2])
        box2_area == (box2[3] - box2[1]) * (box2[4] - box2[2])
        union == box1_area + box2_area - inter_area
    IN  Frac(inter_area, union)

bbox_iou(box1, box2) ==
    LET inter_x1 == Max2(box1[1], box2[1])
        inter_y1 == Max2(box1[2], box2[2])
        inter_x2 == Min2(box1[3], box2[3])
        inter_y2 == Min2(box1[4], box2[4])
        inter_area == Max2(inter_x2 - inter_x1, 0) * Max2(inter_y2 - inter_y1, 0)
        box1_area == (box1[3] - box1[1]) * (box1[4] - box1[2])
        box2_area == (box2[3] - box2[1]) * (box2[4] - box2[2])
        union == box1_area + box2_area - inter_area
    IN  IF union # 0 THEN Frac(inter_area, union) ELSE Zero

-----------------------------------------------------------------------------
(* Greedy matcher, detection mode *)

\* inner loop of match_boxes: indices are Python's, 0-based
RECURSIVE best_match_boxes(_, _, _, _, _)
best_match_boxes(pred_box, gt_boxes, idx, best_iou, best_match_idx) ==
    IF idx >= Len(gt_boxes)
    THEN [best_iou |-> best_iou, best_match_idx |-> best_match_idx]
    ELSE LET iou == bbox_iou(pred_box, gt_boxes[idx + 1])
         IN  IF Gt(iou, best_iou)
             THEN best_match_boxes(pred_box, gt_boxes, idx + 1, iou, idx)
             ELSE best_match_boxes(pred_box, gt_boxes, idx + 1, best_iou, best_match_idx)

\* outer loop of match_boxes from prediction k on
RECURSIVE match_boxes_loop(_, _, _, _, _, _, _)
match_boxes_loop(gt_boxes, pred_boxes, tau, k, tp, fp, matched_indices) ==
    IF k > Len(pred_boxes)
    THEN [tp |-> tp, fp |-> fp, fn |-> Len(gt_boxes) - Cardinality(matched_indices)]
    ELSE LET b == best_match_boxes(pred_boxes[k], gt_boxes, 0, Zero, None)
         IN  IF Ge(b.best_iou, tau)
             THEN IF b.best_match_idx \notin matched_indices
                  THEN match_boxes_loop(gt_boxes, pred_boxes, tau, k + 1, tp + 1, fp,
                                        matched_indices \cup {b.best_match_idx})
                  ELSE match_boxes_loop(gt_boxes, pred_boxes, tau, k + 1, tp, fp + 1,
                                        matched_indices)
             ELSE match_boxes_loop(gt_boxes, pred_boxes, tau, k + 1, tp, fp + 1,
                                   matched_indices)

\* a matcher that, when the best box is already claimed, falls back to the
\* lowest unclaimed box that still meets the threshold
RECURSIVE match_boxes_reassign_loop(_, _, _, _, _, _, _)
match_boxes_reassign_loop(gt_boxes, pred_boxes, tau, k, tp, fp, matched_indices) ==
    IF k > Len(pred_boxes)
    THEN [tp |-> tp, fp |-> fp, fn |-> Len(gt_boxes) - Cardinality(matched_indices)]
    ELSE LET b == best_match_boxes(pred_boxes[k], gt_boxes, 0, Zero, None)
             free == {i \in 0..(Len(gt_boxes) - 1) :
                        /\ i \notin matched_indices
                        /\ Ge(bbox_iou(pred_boxes[k], gt_boxes[i + 1]), tau)}
         IN  IF Ge(b.best_iou, tau)
             THEN IF b.best_match_idx \notin matched_indices
                  THEN match_boxes_reassign_loop(gt_boxes, pred_boxes, tau, k + 1, tp + 1,
                                                 fp, matched_indices \cup {b.best_match_idx})
                  ELSE IF free # {}
                       THEN match_boxes_reassign_loop(gt_boxes, pred_boxes, tau, k + 1,
                                tp + 1, fp,
                                matched_indices \cup {CHOOSE i \in free : \A j \in free : i <= j})
                       ELSE match_boxes_reassign_loop(gt_boxes, pred_boxes, tau, k + 1, tp,
                                                      fp + 1, matched_indices)
             ELSE match_boxes_reassign_loop(gt_boxes, pred_boxes, tau, k + 1, tp, fp + 1,
                                            matched_indices)

match_boxes_reassign(gt_boxes, pred_boxes, tau) ==
    match_boxes_reassign_loop(gt_boxes, pred_boxes, tau, 1, 0, 0, {})

match_boxes(gt_boxes, pred_boxes, tau) ==
    match_boxes_loop(gt_boxes, pred_boxes, tau, 1, 0, 0, {})

-----------------------------------------------------------------------------
(* Greedy matcher, classification mode *)

\* inner loop of match_classification over zip(gt_boxes, gt_labels)
RECURSIVE best_match_classification(_, _, _, _, _, _)
best_match_classification(pred_box, gt_boxes, gt_labels, idx, best_iou, best_match_idx) ==
    IF idx >= Min2(Len(gt_boxes), Len(gt_labels))
    THEN [best_iou |-> best_iou, best_match_idx |-> best_match_idx]
    ELSE LET iou == bbox_iou(pred_box, gt_boxes[idx + 1])
         IN  IF Gt(iou, best_iou)
             THEN best_match_classification(pred_box, gt_boxes, gt_labels, idx + 1, iou, idx)
             ELSE best_match_classification(pred_box, gt_boxes, gt_labels, idx + 1,
                                            best_iou, best_match_idx)

\* outer loop of match_classification over zip(pred_boxes, pred_labels) from
\* prediction k on; gt_labels[None] raises TypeError (err)
RECURSIVE match_classification_loop(_, _, _, _, _, _, _, _, _)
match_classification_loop(gt_boxes, gt_labels, pred_boxes, pred_labels, tau, k, tp, fp, matched_indices) ==
    IF k > Min2(Len(pred_boxes), Len(pred_labels))
    THEN [err |-> FALSE, tp |-> tp, fp |-> fp, fn |-> Len(gt_labels) - tp]
    ELSE LET b == best_match_classification(pred_boxes[k], gt_boxes, gt_labels, 0, Zero, None)
         IN  IF Ge(b.best_iou, tau) /\ b.best_match_idx \notin matched_indices
             THEN IF b.best_match_idx = None
                  THEN [err |-> TRUE, tp |-> tp, fp |-> fp, fn |-> 0]
                  ELSE IF pred_labels[k] = gt_labels[b.best_match_idx + 1]
                       THEN match_classification_loop(gt_boxes, gt_labels, pred_boxes,
                                pred_labels, tau, k + 1, tp + 1, fp,
                                matched_indices \cup {b.best_match_idx})
                       ELSE match_classification_loop(gt_boxes, gt_labels, pred_boxes,
                                pred_labels, tau, k + 1, tp, fp + 1,
                                matched_indices \cup {b.best_match_idx})
             ELSE match_classification_loop(gt_boxes, gt_labels, pred_boxes, pred_labels,
                                            tau, k + 1, tp, fp + 1, matched_indices)

\* a matcher in which only a correctly labelled prediction claims its box
RECURSIVE match_classification_claim_on_tp_loop(_, _, _, _, _, _, _, _, _)
match_classification_claim_on_tp_loop(gt_boxes, gt_labels, pred_boxes, pred_labels, tau, k, tp, fp, matched_indices) ==
    IF k > Min2(Len(pred_boxes), Len(pred_labels))
    THEN [err |-> FALSE, tp |-> tp, fp |-> fp, fn |-> Len(gt_labels) - tp]
    ELSE LET b == best_match_classification(pred_boxes[k], gt_boxes, gt_labels, 0, Zero, None)
         IN  IF Ge(b.best_iou, tau) /\ b.best_match_idx \notin matched_indices
             THEN IF b.best_match_idx = None
                  THEN [err |-> TRUE, tp |-> tp, fp |-> fp, fn |-> 0]
                  ELSE IF pred_labels[k] = gt_labels[b.best_match_idx + 1]
                       THEN match_classification_claim_on_tp_loop(gt_boxes, gt_labels,
                                pred_boxes, pred_labels, tau, k + 1, tp + 1, fp,
                                matched_indices \cup {b.best_match_idx})
                       ELSE match_classification_claim_on_tp_loop(gt_boxes, gt_labels,
                                pred_boxes, pred_labels, tau, k + 1, tp, fp + 1,
                                matched_indices)
             ELSE match_classification_claim_on_tp_loop(gt_boxes, gt_labels, pred_boxes,
                      pred_labels, tau, k + 1, tp, fp + 1, matched_indices)

match_classification_claim_on_tp(gt_boxes, gt_labels, pred_boxes, pred_labels, tau) ==
    match_classification_claim_on_tp_loop(gt_boxes, gt_labels, pred_boxes, pred_labels, tau,
                                          1, 0, 0, {})

\* a matcher whose fn is computed by match_boxes' formula
match_classification_fn_by_claimed(gt_boxes, gt_labels, pred_boxes, pred_labels, tau) ==
    LET r == match_classification_loop(gt_boxes, gt_labels, pred_boxes, pred_labels, tau,
                                       1, 0, 0, {})
        m == match_boxes(gt_boxes, pred_boxes, tau)
    IN  [r EXCEPT !.fn = m.fn]

match_classification(gt_boxes, gt_labels, pred_boxes, pred_labels, tau) ==
    match_classification_loop(gt_boxes, gt_labels, pred_boxes, pred_labels, tau, 1, 0, 0, {})

-----------------------------------------------------------------------------
(* Conditioned pair collector *)

\* inner loop of match_classification_detected_only
RECURSIVE best_match_detected_only(_, _, _, _, _, _)
best_match_detected_only(pred_box, gt_boxes, gt_labels, idx, best_iou, best_match_idx) ==
    IF idx >= Min2(Len(gt_boxes), Len(gt_labels))
    THEN [best_iou |-> best_iou, best_match_idx |-> best_match_idx]
    ELSE LET iou == bbox_iou(pred_box, gt_boxes[idx + 1])
         IN  IF Gt(iou, best_iou)
             THEN best_match_detected_only(pred_box, gt_boxes, gt_labels, idx + 1, iou, idx)
             ELSE best_match_detected_only(pred_box, gt_boxes, gt_labels, idx + 1,
                                           best_iou, best_match_idx)

\* outer loop of match_classification_detected_only from prediction k on;
\* yt, yp are self.y_true, self.y_pred as the loop has left them
RECURSIVE detected_only_loop(_, _, _, _, _, _, _, _, _)
detected_only_loop(gt_boxes, gt_labels, pred_boxes, pred_labels, tau, k, yt, yp, matched_indices) ==
    IF k > Min2(Len(pred_boxes), Len(pred_labels))
    THEN [err |-> FALSE, y_true |-> yt, y_pred |-> yp]
    ELSE LET b == best_match_detected_only(pred_boxes[k], gt_boxes, gt_labels, 0, Zero, None)
         IN  IF Ge(b.best_iou, tau) /\ b.best_match_idx \notin matched_indices
             THEN IF b.best_match_idx = None
                  THEN [err |-> TRUE, y_true |-> yt, y_pred |-> yp]
                  ELSE detected_only_loop(gt_boxes, gt_labels, pred_boxes, pred_labels, tau,
                           k + 1, Append(yt, gt_labels[b.best_match_idx + 1]),
                           Append(yp, pred_labels[k]),
                           matched_indices \cup {b.best_match_idx})
             ELSE detected_only_loop(gt_boxes, gt_labels, pred_boxes, pred_labels, tau,
                                     k + 1, yt, yp, matched_indices)

\* a collector that never marks a box as claimed
RECURSIVE detected_only_no_claim_loop(_, _, _, _, _, _, _, _, _)
detected_only_no_claim_loop(gt_boxes, gt_labels, pred_boxes, pred_labels, tau, k, yt, yp, matched_indices) ==
    IF k > Min2(Len(pred_boxes), Len(pred_labels))
    THEN [err |-> FALSE, y_true |-> yt, y_pred |-> yp]
    ELSE LET b == best_match_detected_only(pred_boxes[k], gt_boxes, gt_labels, 0, Zero, None)
         IN  IF Ge(b.best_iou, tau) /\ b.best_match_idx \notin matched_indices
             THEN IF b.best_match_idx = None
                  THEN [err |-> TRUE, y_true |-> yt, y_pred |-> yp]
                  ELSE detected_only_no_claim_loop(gt_boxes, gt_labels, pred_boxes,
                           pred_labels, tau, k + 1,
                           Append(yt, gt_labels[b.best_match_idx + 1]),
                           Append(yp, pred_labels[k]), matched_indices)
             ELSE detected_only_no_claim_loop(gt_boxes, gt_labels, pred_boxes, pred_labels,
                                              tau, k + 1, yt, yp, matched_indices)

match_classification_detected_only_no_claim(gt_boxes, gt_labels, pred_boxes, pred_labels, tau, yt, yp) ==
    detected_only_no_claim_loop(gt_boxes, gt_labels, pred_boxes, pred_labels, tau, 1, yt,
                                yp, {})

match_classification_detected_only(gt_boxes, gt_labels, pred_boxes, pred_labels, tau, yt, yp) ==
    detected_only_loop(gt_boxes, gt_labels, pred_boxes, pred_labels, tau, 1, yt, yp, {})

-----------------------------------------------------------------------------
(* Confusion accumulator *)

RECURSIVE SumOver(_, _)
\* sum of f[x] over the finite set S
SumOver(f, S) ==
    IF S = {} THEN 0
    ELSE LET x == CHOOSE y \in S : TRUE IN f[x] + SumOver(f, S \ {x})

\* sklearn's confusion_matrix(y_true, y_pred): classes are the labels that occur
\* in either sequence, cm[i][j] counts the pairs with true i and predicted j
confusion_matrix(yt, yp) ==
    LET labels == {yt[i] : i \in 1..Len(yt)} \cup {yp[i] : i \in 1..Len(yp)}
    IN  [i \in labels |-> [j \in labels |->
            Cardinality({n \in 1..Min2(Len(yt), Len(yp)) : yt[n] = i /\ yp[n] = j})]]

\* the totals with the diagonal left in the column and row sums
get_classification_confusion_matrix_keep_diag(yt, yp) ==
    LET cm == confusion_matrix(yt, yp)
        labels == DOMAIN cm
        tp_cls_only == [c \in labels |-> cm[c][c]]
        fp_cls_only == [c \in labels |-> SumOver([i \in labels |-> cm[i][c]], labels)]
        fn_cls_only == [c \in labels |-> SumOver([j \in labels |-> cm[c][j]], labels)]
    IN  [tp |-> SumOver(tp_cls_only, labels),
         fp |-> SumOver(fp_cls_only, labels),
         fn |-> SumOver(fn_cls_only, labels)]

get_classification_confusion_matrix(yt, yp) ==
    LET cm == confusion_matrix(yt, yp)
        labels == DOMAIN cm
        tp_cls_only == [c \in labels |-> cm[c][c]]
        fp_cls_only == [c \in labels |->
                          SumOver([i \in labels |-> cm[i][c]], labels) - tp_cls_only[c]]
        fn_cls_only == [c \in labels |->
                          SumOver([j \in labels |-> cm[c][j]], labels) - tp_cls_only[c]]
    IN  [tp |-> SumOver(tp_cls_only, labels),
         fp |-> SumOver(fp_cls_only, labels),
         fn |-> SumOver(fn_cls_only, labels)]

-----------------------------------------------------------------------------
(* State outside a cascade run *)

ZeroCounters ==
    [tp_plate |-> 0, fp_plate |-> 0, fn_plate |-> 0,
     tp_seg |-> 0, fp_seg |-> 0, fn_seg |-> 0,
     tp_class |-> 0, fp_class |-> 0, fn_class |-> 0,
     tp_seg_only |-> 0, fp_seg_only |-> 0, fn_seg_only |-> 0]

ZeroTriple == [tp |-> 0, fp |-> 0, fn |-> 0]

\* __init__: empty buffers, nothing evaluated yet
Constructed ==
    /\ pos = 0
    /\ run = 0
    /\ counters = ZeroCounters
    /\ y_true = <<>>
    /\ y_pred = <<>>
    /\ cls_only = ZeroTriple

-----------------------------------------------------------------------------
(* Direct calls of bbox_iou on every pair of integer boxes of the grid,     *)
(* inverted and zero-area boxes included                                    *)

Coords == 0..MaxCoord
GridBoxes == {<<x1, y1, x2, y2>> : x1 \in Coords, y1 \in Coords, x2 \in Coords, y2 \in Coords}

InitIoU ==
    /\ Constructed
    /\ iou_threshold = <<1, 2>>
    /\ data_loader = <<>>
    /\ pc = "bbox_iou_args"
    /\ args \in [box1 : GridBoxes, box2 : GridBoxes]
    /\ ret = Zero

CallBboxIou ==
    /\ pc = "bbox_iou_args"
    /\ ret' = bbox_iou(args.box1, args.box2)
    /\ pc' = "bbox_iou_done"
    /\ UNCHANGED <<iou_threshold, data_loader, pos, run, counters, y_true, y_pred,
                   cls_only, args>>

NextIoU == CallBboxIou

SpecIoU == InitIoU /\ [][NextIoU]_vars

-----------------------------------------------------------------------------
(* Direct calls of match_boxes on bounded inputs.  The boxes: the lower      *)
(* half, the upper half and the whole of a 2x2 square (IoU 0 between the     *)
(* halves, 1/2 between a half and the whole), and a zero-area box.           *)

LowerHalf == <<0, 0, 2, 1>>
UpperHalf == <<0, 1, 2, 2>>
Whole == <<0, 0, 2, 2>>
Point == <<1, 1, 1, 1>>
BoxSet == {LowerHalf, UpperHalf, Whole, Point}

InitBoxes ==
    /\ Constructed
    /\ data_loader = <<>>
    /\ pc = "match_args"
    /\ iou_threshold \in Thresholds
    /\ \E g \in 0..MaxGT, p \in 0..MaxPred :
         \E gb \in [1..g -> BoxSet], pb \in [1..p -> BoxSet] :
           args = [gt_boxes |-> gb, pred_boxes |-> pb]
    /\ ret = ZeroTriple

CallMatchBoxes ==
    /\ pc = "match_args"
    /\ ret' = match_boxes(args.gt_boxes, args.pred_boxes, iou_threshold)
    /\ pc' = "match_boxes_done"
    /\ UNCHANGED <<iou_threshold, data_loader, pos, run, counters, y_true, y_pred,
                   cls_only, args>>

NextBoxes == CallMatchBoxes

SpecBoxes == InitBoxes /\ [][NextBoxes]_vars

-----------------------------------------------------------------------------
(* Direct calls of the classification matcher and of the pair collector on   *)
(* bounded inputs.  Ground-truth boxes are the two halves, predicted boxes   *)
(* the lower half and the whole: a prediction can match exactly, overlap     *)
(* both halves equally at 1/2, or miss.  Box and label lists are parallel,   *)
(* as evaluate_predictions builds them (lines 52-57, 67, 74).                *)

GtBoxSet == {LowerHalf, UpperHalf}
PredBoxSet == {LowerHalf, Whole}
LabelSet == {0, 1}

InitMatch ==
    /\ Constructed
    /\ data_loader = <<>>
    /\ pc = "match_args"
    /\ iou_threshold \in Thresholds
    /\ \E g \in 0..MaxGT, p \in 0..MaxPred :
         \E gb \in [1..g -> GtBoxSet], gl \in [1..g -> LabelSet],
            pb \in [1..p -> PredBoxSet], pl \in [1..p -> LabelSet] :
           args = [gt_boxes |-> gb, gt_labels |-> gl, pred_boxes |-> pb, pred_labels |-> pl]
    /\ ret = ZeroTriple

CallMatchClassification ==
    /\ pc = "match_args"
    /\ ret' = match_classification(args.gt_boxes, args.gt_labels, args.pred_boxes,
                                   args.pred_labels, iou_threshold)
    /\ pc' = IF ret'.err THEN "match_classification_raised" ELSE "match_classification_done"
    /\ UNCHANGED <<iou_threshold, data_loader, pos, run, counters, y_true, y_pred,
                   cls_only, args>>

CallMatchClassificationDetectedOnly ==
    /\ pc = "match_args"
    /\ LET r == match_classification_detected_only(args.gt_boxes, args.gt_labels,
                    args.pred_boxes, args.pred_labels, iou_threshold, y_true, y_pred)
       IN  /\ y_true' = r.y_true
           /\ y_pred' = r.y_pred
           /\ pc' = IF r.err THEN "detected_only_raised" ELSE "detected_only_done"
    /\ UNCHANGED <<iou_threshold, data_loader, pos, run, counters, cls_only, args, ret>>

CallGetClassificationConfusionMatrix ==
    /\ pc = "detected_only_done"
    /\ cls_only' = get_classification_confusion_matrix(y_true, y_pred)
    /\ pc' = "confusion_done"
    /\ UNCHANGED <<iou_threshold, data_loader, pos, run, counters, y_true, y_pred,
                   args, ret>>

NextMatch ==
    \/ CallMatchClassification
    \/ CallMatchClassificationDetectedOnly
    \/ CallGetClassificationConfusionMatrix

SpecMatch == InitMatch /\ [][NextMatch]_vars

-----------------------------------------------------------------------------
(* The cascade evaluator.  The external collaborators are fixed tables over  *)
(* a handful of images: the ground truth the loader yields per filename and  *)
(* the two prediction tables.                                                *)

PlateBox == <<0, 0, 10, 10>>
Char1 == <<1, 1, 3, 9>>
Char2 == <<4, 1, 6, 9>>
Char3 == <<7, 1, 9, 9>>
FarBox == <<20, 20, 30, 30>>

Filenames == {"cascade", "miss", "two_plates", "dup", "unknown", "ragged", "stray"}

\* what the data loader yields for an image: its boxes and its labels
ground_truth(f) ==
    CASE f = "cascade"    -> [box |-> <<PlateBox, Char1, Char2, Char3>>, label |-> <<0, 1, 2, 3>>]
      [] f = "miss"       -> [box |-> <<PlateBox, Char1>>, label |-> <<0, 1>>]
      [] f = "two_plates" -> [box |-> <<PlateBox, FarBox, Char1>>, label |-> <<0, 0, 2>>]
      [] f = "dup"        -> [box |-> <<PlateBox, Char1>>, label |-> <<0, 1>>]
      [] f = "unknown"    -> [box |-> <<PlateBox, Char1>>, label |-> <<0, 1>>]
      [] f = "ragged"     -> [box |-> <<PlateBox, Char1, Char2>>, label |-> <<0, 1>>]
      [] f = "stray"      -> [box |-> <<PlateBox, Char1>>, label |-> <<0, 1>>]

\* self.localization_data[... == img_filename]['Boxes'].tolist()
localization_data(f) ==
    CASE f = "cascade"    -> <<PlateBox>>
      [] f = "miss"       -> <<FarBox>>
      [] f = "two_plates" -> <<PlateBox, FarBox>>
      [] f = "dup"        -> <<PlateBox>>
      [] f = "ragged"     -> <<PlateBox>>
      [] f = "stray"      -> <<PlateBox>>
      [] OTHER            -> <<>>

\* the rows of self.character_data for img_filename: 'Boxes' and 'Predicted Class'
character_data(f) ==
    CASE f = "cascade"    -> [Boxes |-> <<Char1, <<4, 1, 6, 8>>, Char3>>, Predicted_Class |-> <<0, 1, 9>>]
      [] f = "miss"       -> [Boxes |-> <<Char1>>, Predicted_Class |-> <<0>>]
      [] f = "two_plates" -> [Boxes |-> <<Char1>>, Predicted_Class |-> <<1>>]
      [] f = "dup"        -> [Boxes |-> <<Char1, Char1>>, Predicted_Class |-> <<5, 0>>]
      [] f = "ragged"     -> [Boxes |-> <<Char1, Char2>>, Predicted_Class |-> <<0, 1>>]
      [] f = "stray"      -> [Boxes |-> <<Char1, FarBox>>, Predicted_Class |-> <<0, 0>>]
      [] OTHER            -> [Boxes |-> <<>>, Predicted_Class |-> <<>>]

\* the loop over zip(box, label) that separates plates from characters
RECURSIVE split_loop(_, _, _, _, _, _)
split_loop(box, label, i, plate_boxes, char_boxes, char_labels) ==
    IF i > Min2(Len(box), Len(label))
    THEN [plate_boxes |-> plate_boxes, char_boxes |-> char_boxes, char_labels |-> char_labels]
    ELSE IF label[i] = 0
         THEN split_loop(box, label, i + 1, Append(plate_boxes, box[i]), char_boxes,
                         char_labels)
         ELSE split_loop(box, label, i + 1, plate_boxes, Append(char_boxes, box[i]),
                         Append(char_labels, label[i] - 1))

split(f) == split_loop(ground_truth(f).box, ground_truth(f).label, 1, <<>>, <<>>, <<>>)

\* a conditioning that accepts any detected plate
plate_detected_at_least_once(matched_plate) == matched_plate.tp >= 1

\* if matched_plate['tp'] == 1
plate_detected(matched_plate) == matched_plate.tp = 1

Init ==
    /\ Constructed
    /\ pc = "constructed"
    /\ iou_threshold \in Thresholds
    /\ data_loader \in UNION {[1..n -> Filenames] : n \in 0..MaxImages}
    /\ args = <<>>
    /\ ret = ZeroTriple

\* a call of evaluate_predictions begins: its locals are zeroed
evaluate_predictions ==
    /\ pc \in {"constructed", "done"}
    /\ run < MaxRuns
    /\ run' = run + 1
    /\ pos' = 0
    /\ counters' = ZeroCounters
    /\ cls_only' = ZeroTriple
    /\ pc' = "loop"
    /\ UNCHANGED <<iou_threshold, data_loader, y_true, y_pred, args, ret>>

\* one iteration of the image loop that runs to its end
ProcessImage ==
    /\ pc = "loop"
    /\ pos < Len(data_loader)
    /\ LET img_filename == data_loader[pos + 1]
           s == split(img_filename)
           pred_boxes_plate == localization_data(img_filename)
           matched_plate == match_boxes(s.plate_boxes, pred_boxes_plate, iou_threshold)
           pred_boxes_char == character_data(img_filename).Boxes
           matched_char == match_boxes(s.char_boxes, pred_boxes_char, iou_threshold)
           pred_labels_char == character_data(img_filename).Predicted_Class
           matched_class == match_classification(s.char_boxes, s.char_labels,
                                pred_boxes_char, pred_labels_char, iou_threshold)
           det == match_classification_detected_only(s.char_boxes, s.char_labels,
                      pred_boxes_char, pred_labels_char, iou_threshold, y_true, y_pred)
       IN  /\ ~matched_class.err
           /\ counters' =
                [tp_plate |-> counters.tp_plate + matched_plate.tp,
                 fp_plate |-> counters.fp_plate + matched_plate.fp,
                 fn_plate |-> counters.fn_plate + matched_plate.fn,
                 tp_seg |-> counters.tp_seg + matched_char.tp,
                 fp_seg |-> counters.fp_seg + matched_char.fp,
                 fn_seg |-> counters.fn_seg + matched_char.fn,
                 tp_class |-> counters.tp_class + matched_class.tp,
                 fp_class |-> counters.fp_class + matched_class.fp,
                 fn_class |-> counters.fn_class + matched_class.fn,
                 tp_seg_only |-> IF plate_detected(matched_plate)
                                 THEN counters.tp_seg_only + matched_char.tp
                                 ELSE counters.tp_seg_only,
                 fp_seg_only |-> IF plate_detected(matched_plate)
                                 THEN counters.fp_seg_only + matched_char.fp
                                 ELSE counters.fp_seg_only,
                 fn_seg_only |-> IF plate_detected(matched_plate)
                                 THEN counters.fn_seg_only + matched_char.fn
                                 ELSE counters.fn_seg_only]
           /\ IF plate_detected(matched_plate)
              THEN /\ y_true' = det.y_true
                   /\ y_pred' = det.y_pred
                   /\ pc' = IF det.err THEN "raised" ELSE "loop"
                   /\ pos' = IF det.err THEN pos ELSE pos + 1
              ELSE /\ UNCHANGED <<y_true, y_pred, pc>>
                   /\ pos' = pos + 1
    /\ UNCHANGED <<iou_threshold, data_loader, run, cls_only, args, ret>>

\* one iteration in which match_classification raises TypeError at line 134:
\* the plate and segmentation counters have been added, the call is over
ProcessImageTypeError ==
    /\ pc = "loop"
    /\ pos < Len(data_loader)
    /\ LET img_filename == data_loader[pos + 1]
           s == split(img_filename)
           pred_boxes_plate == localization_data(img_filename)
           matched_plate == match_boxes(s.plate_boxes, pred_boxes_plate, iou_threshold)
           pred_boxes_char == character_data(img_filename).Boxes
           matched_char == match_boxes(s.char_boxes, pred_boxes_char, iou_threshold)
           pred_labels_char == character_data(img_filename).Predicted_Class
           matched_class == match_classification(s.char_boxes, s.char_labels,
                                pred_boxes_char, pred_labels_char, iou_threshold)
       IN  /\ matched_class.err
           /\ counters' =
                [counters EXCEPT !.tp_plate = @ + matched_plate.tp,
                                 !.fp_plate = @ + matched_plate.fp,
                                 !.fn_plate = @ + matched_plate.fn,
                                 !.tp_seg = @ + matched_char.tp,
                                 !.fp_seg = @ + matched_char.fp,
                                 !.fn_seg = @ + matched_char.fn]
    /\ pc' = "raised"
    /\ UNCHANGED <<iou_threshold, data_loader, pos, run, y_true, y_pred, cls_only, args,
                   ret>>

\* after the loops: the classification-only totals come from the confusion matrix
Finish ==
    /\ pc = "loop"
    /\ pos = Len(data_loader)
    /\ cls_only' = get_classification_confusion_matrix(y_true, y_pred)
    /\ pc' = "done"
    /\ UNCHANGED <<iou_threshold, data_loader, pos, run, counters, y_true, y_pred, args,
                   ret>>

Next ==
    \/ evaluate_predictions
    \/ ProcessImage
    \/ ProcessImageTypeError
    \/ Finish

Spec == Init /\ [][Next]_vars

-----------------------------------------------------------------------------
(* Properties of bbox_iou, checked under SpecIoU *)

One == <<1, 1>>
FracEq(a, b) == a[1] * b[2] = b[1] * a[2]
Area(b) == (b[3] - b[1]) * (b[4] - b[2])
Overlap(lo1, hi1, lo2, hi2) ==
    IF Min2(hi1, hi2) > Max2(lo1, lo2) THEN Min2(hi1, hi2) - Max2(lo1, lo2) ELSE 0
UnionArea(a, b) ==
    Area(a) + Area(b) - Overlap(a[1], a[3], b[1], b[3]) * Overlap(a[2], a[4], b[2], b[4])

\* C7: bbox_iou(A, B) equals bbox_iou(B, A) and lies in [0, 1] for all integer
\* boxes of the grid, zero-area ones included; the quotient is only ever formed
\* with a nonzero divisor, and a zero union gives 0.
C7_IoUSymmetricBounded ==
    pc = "bbox_iou_done" =>
        /\ ret[2] # 0
        /\ FracEq(ret, bbox_iou(args.box2, args.box1))
        /\ Ge(ret, Zero)
        /\ Ge(One, ret)
        /\ (UnionArea(args.box1, args.box2) = 0 => ret = Zero)

\* bbox_iou has run on two zero-area boxes whose union is 0
C7_Witness ==
    /\ pc = "bbox_iou_done"
    /\ Area(args.box1) = 0
    /\ Area(args.box2) = 0
    /\ UnionArea(args.box1, args.box2) = 0
    /\ ret = Zero

-----------------------------------------------------------------------------
(* Properties of the matchers: of match_boxes under SpecBoxes, of            *)
(* match_classification and match_classification_detected_only under         *)
(* SpecMatch.  The helpers describe the greedy rule declaratively, per       *)
(* prediction.                                                               *)

G == Len(args.gt_boxes)
P == Len(args.pred_boxes)

\* IoU of prediction k with ground-truth index i (0-based)
IoUOf(k, i) == bbox_iou(args.pred_boxes[k], args.gt_boxes[i + 1])

\* the lowest index among the ground-truth boxes of maximum IoU with prediction
\* k, or None when no box has a positive IoU
BestIdx(k) ==
    IF \E i \in 0..(G - 1) : Gt(IoUOf(k, i), Zero)
    THEN CHOOSE i \in 0..(G - 1) :
            /\ \A j \in 0..(G - 1) : Ge(IoUOf(k, i), IoUOf(k, j))
            /\ \A j \in 0..(i - 1) : Gt(IoUOf(k, i), IoUOf(k, j))
    ELSE None

BestIoU(k) == IF BestIdx(k) = None THEN Zero ELSE IoUOf(k, BestIdx(k))

\* prediction k's best box reaches the threshold
Meets(k) == Ge(BestIoU(k), iou_threshold)

\* prediction k is the first, in input order, to reach the threshold on its best box
FirstClaimer(k) ==
    /\ Meets(k)
    /\ \A q \in 1..(k - 1) : ~(Meets(q) /\ BestIdx(q) = BestIdx(k))

\* everything the predictions claim: the best indices that reach the threshold
ClaimedIdx == {BestIdx(k) : k \in {q \in 1..P : Meets(q)}}

\* prediction k is refused because its best box is taken, although a box no
\* earlier prediction claimed also reaches the threshold for it
RefusedWithAlternative(k) ==
    /\ Meets(k)
    /\ ~FirstClaimer(k)
    /\ \E j \in 0..(G - 1) :
         /\ j \notin {BestIdx(q) : q \in {r \in 1..(k - 1) : Meets(r)}}
         /\ Ge(IoUOf(k, j), iou_threshold)

\* size of a largest one-to-one assignment of predictions to ground-truth boxes
\* in which every assigned pair reaches the threshold (a[k] = None: unassigned)
OptimalTP ==
    LET Assignments ==
            {a \in [1..P -> {None} \cup 0..(G - 1)] :
                /\ \A k \in 1..P : a[k] # None => Ge(IoUOf(k, a[k]), iou_threshold)
                /\ \A k \in 1..P, q \in 1..P : (k # q /\ a[k] # None) => a[k] # a[q]}
        Size(a) == Cardinality({k \in 1..P : a[k] # None})
    IN  CHOOSE n \in 0..P :
            /\ \E a \in Assignments : Size(a) = n
            /\ \A a \in Assignments : Size(a) <= n

Orders(n) == {f \in [1..n -> 1..n] : \A i \in 1..n, j \in 1..n : i # j => f[i] # f[j]}
Reordered(seq, f) == [k \in 1..Len(seq) |-> seq[f[k]]]

\* C1 as claimed, for any threshold: tp <= min(G, P), fp = P - tp, and
\* fn = G - (number of distinct ground-truth indices matched), never negative.
C1_MatcherConservation ==
    pc = "match_boxes_done" =>
        /\ ret.tp <= Min2(G, P)
        /\ ret.fp = P - ret.tp
        /\ ret.fn = G - Cardinality(ClaimedIdx \ {None})
        /\ ret.fn >= 0

\* C9, amended: tp is the number of distinct best indices that reach the
\* threshold (each prediction is tried on its best box only, the lowest index
\* among ties, and a refused prediction is counted FP, never re-assigned), and
\* the returned counts are the same for every order of the predictions.
C9_GreedyNoReassign ==
    pc = "match_boxes_done" =>
        /\ ret.tp = Cardinality(ClaimedIdx)
        /\ ret.fp = P - ret.tp
        /\ \A f \in Orders(P) :
             match_boxes(args.gt_boxes, Reordered(args.pred_boxes, f), iou_threshold) = ret

\* match_boxes has refused a prediction that an unclaimed box would have
\* accepted, and its tp is below the optimal assignment
C9_Witness ==
    /\ pc = "match_boxes_done"
    /\ \E k \in 1..P : RefusedWithAlternative(k)
    /\ ret.tp < OptimalTP
    /\ ret.fp >= 1

\* C9 as claimed: as above, and where a prediction is refused although an
\* unclaimed box reaches the threshold, the result depends on prediction order.
C9_Original_OrderDependent ==
    pc = "match_boxes_done" =>
        /\ ret.tp = Cardinality(ClaimedIdx)
        /\ ret.fp = P - ret.tp
        /\ (\E k \in 1..P : RefusedWithAlternative(k)) =>
              \E f \in Orders(P) :
                 match_boxes(args.gt_boxes, Reordered(args.pred_boxes, f), iou_threshold) # ret

EqualPairs(yt, yp) == Cardinality({n \in 1..Min2(Len(yt), Len(yp)) : yt[n] = yp[n]})

\* C10: on the same inputs match_classification_detected_only raises exactly
\* when match_classification does; otherwise it appends one pair per claimed
\* index, as many equal-label pairs as match_classification's tp, keeps y_true
\* and y_pred the same length, and the confusion-matrix TP over the collected
\* pairs equals match_classification's tp.
C10_CollectorAgreesWithMatcher ==
    LET mc == match_classification(args.gt_boxes, args.gt_labels, args.pred_boxes,
                                   args.pred_labels, iou_threshold)
    IN  /\ pc \in {"detected_only_done", "confusion_done"} =>
              /\ ~mc.err
              /\ Len(y_true) = Len(y_pred)
              /\ Len(y_true) = Cardinality(ClaimedIdx)
              /\ EqualPairs(y_true, y_pred) = mc.tp
        /\ pc = "detected_only_raised" => (mc.err /\ Len(y_true) = Len(y_pred))
        /\ pc = "confusion_done" => cls_only.tp = mc.tp

\* the collector has appended a pair, refused a later prediction on a claimed
\* box, and the confusion matrix has been built from the pairs
C10_Witness ==
    /\ pc = "confusion_done"
    /\ Len(y_true) >= 1
    /\ Len(y_true) < P
    /\ \E k \in 1..P : Meets(k) /\ ~FirstClaimer(k)
    /\ cls_only.tp >= 1

-----------------------------------------------------------------------------
(* Properties of the cascade evaluator, checked under Spec *)

PlateMatch(f) == match_boxes(split(f).plate_boxes, localization_data(f), iou_threshold)
CharMatch(f) == match_boxes(split(f).char_boxes, character_data(f).Boxes, iou_threshold)
ClassMatch(f) ==
    match_classification(split(f).char_boxes, split(f).char_labels,
                         character_data(f).Boxes, character_data(f).Predicted_Class,
                         iou_threshold)

\* the images the running call has processed
Processed == SubSeq(data_loader, 1, pos)

\* the images with plate tp = 1 among those at the positions 1..n of files
Conditioned(files, n) == {i \in 1..n : PlateMatch(files[i]).tp = 1}

\* sum over the positions in S of the tp / fp / fn of M(files[i])
TripleSum(M(_), files, S) ==
    [tp |-> SumOver([i \in S |-> M(files[i]).tp], S),
     fp |-> SumOver([i \in S |-> M(files[i]).fp], S),
     fn |-> SumOver([i \in S |-> M(files[i]).fn], S)]

\* the pairs the collector yields on the images of files with plate tp = 1, in order
RECURSIVE PairsOf(_, _, _, _)
PairsOf(files, i, yt, yp) ==
    IF i > Len(files) THEN [y_true |-> yt, y_pred |-> yp]
    ELSE IF PlateMatch(files[i]).tp = 1
         THEN LET d == match_classification_detected_only(split(files[i]).char_boxes,
                           split(files[i]).char_labels, character_data(files[i]).Boxes,
                           character_data(files[i]).Predicted_Class, iou_threshold, yt, yp)
              IN  PairsOf(files, i + 1, d.y_true, d.y_pred)
         ELSE PairsOf(files, i + 1, yt, yp)

RECURSIVE Repeat(_, _)
Repeat(seq, n) == IF n <= 0 THEN <<>> ELSE seq \o Repeat(seq, n - 1)

\* every image the instance has processed since construction, in order
ProcessedEver == Repeat(data_loader, run - 1) \o Processed

\* C2: while a call runs and when it is done, the unconditional counters are the
\* sums of the per-image results over every processed image, the
\* segmentation-only counters are the sums of the character match_boxes results
\* over exactly the processed images with plate tp = 1, and the confusion buffer
\* holds exactly the pairs of the processed images with plate tp = 1.
C2_ConditionedTallies ==
    pc \in {"loop", "done"} =>
        LET all == 1..pos
            cond == Conditioned(Processed, pos)
            plate == TripleSum(PlateMatch, Processed, all)
            seg == TripleSum(CharMatch, Processed, all)
            class == TripleSum(ClassMatch, Processed, all)
            seg_only == TripleSum(CharMatch, Processed, cond)
            pairs == PairsOf(ProcessedEver, 1, <<>>, <<>>)
        IN  /\ <<counters.tp_plate, counters.fp_plate, counters.fn_plate>>
                 = <<plate.tp, plate.fp, plate.fn>>
            /\ <<counters.tp_seg, counters.fp_seg, counters.fn_seg>>
                 = <<seg.tp, seg.fp, seg.fn>>
            /\ <<counters.tp_class, counters.fp_class, counters.fn_class>>
                 = <<class.tp, class.fp, class.fn>>
            /\ <<counters.tp_seg_only, counters.fp_seg_only, counters.fn_seg_only>>
                 = <<seg_only.tp, seg_only.fp, seg_only.fn>>
            /\ y_true = pairs.y_true
            /\ y_pred = pairs.y_pred

\* two images processed in the first call: one with plate tp = 1 whose character
\* results are in the conditioned tallies, one with plate tp of 0 or 2 whose
\* character results are in the unconditional counters only
C2_Witness ==
    /\ pc = "loop"
    /\ run = 1
    /\ pos = 2
    /\ PlateMatch(data_loader[1]).tp = 1
    /\ PlateMatch(data_loader[2]).tp # 1
    /\ CharMatch(data_loader[2]).tp >= 1
    /\ counters.tp_seg_only = CharMatch(data_loader[1]).tp
    /\ counters.tp_seg > counters.tp_seg_only
    /\ counters.tp_seg_only >= 1
    /\ Len(y_true) >= 1

\* C3 as claimed: an image whose box list and label list differ in length is
\* never consumed; the call ends in an error before any counter takes it in.
C3_MalformedRejected ==
    \A i \in 1..Len(data_loader) :
        Len(ground_truth(data_loader[i]).box) # Len(ground_truth(data_loader[i]).label)
            => (pc \in {"loop", "done"} => pos < i)

\* C5: when the call is done, with N pairs in the buffer, total_TP + total_FP = N,
\* total_TP + total_FN = N and total_TP is the number of pairs with equal labels.
C5_ConfusionTotals ==
    pc = "done" =>
        /\ Len(y_true) = Len(y_pred)
        /\ cls_only.tp + cls_only.fp = Len(y_true)
        /\ cls_only.tp + cls_only.fn = Len(y_true)
        /\ cls_only.tp = EqualPairs(y_true, y_pred)

\* the totals have been taken from a buffer with both equal and unequal pairs
C5_Witness ==
    /\ pc = "done"
    /\ Len(y_true) >= 3
    /\ cls_only.tp >= 1
    /\ cls_only.fp >= 1
    /\ cls_only.fn >= 1

\* the cascade scenario: the one image "cascade", threshold 1/2, first call done
CascadeScenarioDone ==
    /\ pc = "done"
    /\ run = 1
    /\ data_loader = <<"cascade">>
    /\ iou_threshold = <<1, 2>>

\* C6 as claimed: plate tp=1, fp=0, fn=0 and classification tp=2, fp=1, fn=0.
C6_Original_CascadeCounts ==
    CascadeScenarioDone =>
        /\ <<counters.tp_plate, counters.fp_plate, counters.fn_plate>> = <<1, 0, 0>>
        /\ <<counters.tp_class, counters.fp_class, counters.fn_class>> = <<2, 1, 0>>

\* C6, amended: plate tp=1, fp=0, fn=0 and classification tp=2, fp=1, fn=1
\* (fn = 3 - 2).
C6_CascadeCounts ==
    CascadeScenarioDone =>
        /\ <<counters.tp_plate, counters.fp_plate, counters.fn_plate>> = <<1, 0, 0>>
        /\ <<counters.tp_class, counters.fp_class, counters.fn_class>> = <<2, 1, 1>>

\* the cascade scenario has been evaluated, its three pairs collected
C6_Witness ==
    /\ CascadeScenarioDone
    /\ counters.tp_class = 2
    /\ y_true = <<0, 1, 2>>
    /\ y_pred = <<0, 1, 9>>

\* C8 as claimed: every call starts with an empty confusion buffer, and the
\* classification-only totals of a finished call are those of the pairs of one
\* pass over the loader's images.
C8_NothingSurvives ==
    LET pairs == PairsOf(data_loader, 1, <<>>, <<>>)
    IN  /\ (pc = "loop" /\ pos = 0) => (y_true = <<>> /\ y_pred = <<>>)
        /\ pc = "done" =>
              cls_only = get_classification_confusion_matrix(pairs.y_true, pairs.y_pred)

\* C10, at the level of a run: when the first call on an instance is done, the
\* classification-only total TP is the sum of match_classification's tp over the
\* images with plate tp = 1.
C10_RunLevelTP ==
    (pc = "done" /\ run = 1) =>
        cls_only.tp = TripleSum(ClassMatch, data_loader,
                                Conditioned(data_loader, Len(data_loader))).tp

====
